---- MODULE Spec2Model ----
(***************************************************************************)
(* Model of the vocabulary embedding store of mcp-server:                  *)
(*   src/mcp-server/src/embeddings.py  (WordEmbeddingStore, cosine)        *)
(*   src/mcp-server/src/server.py      (the request handlers)              *)
(*                                                                         *)
(* The two mappings of the store are Python dicts, which keep insertion    *)
(* order; each is modelled as a sequence of [k, v] pairs without repeated  *)
(* keys.  The embedding provider is the environment: every fetch either    *)
(* returns one of a few vectors or raises.  Vectors have integer           *)
(* magnitude, so that math.sqrt and the float division are exact up to     *)
(* one correctly rounded division and similarities compare as the          *)
(* rationals they round.                                                   *)
(***************************************************************************)
EXTENDS Integers, Sequences, FiniteSets, TLC

VARIABLES
    embeddings,   \* self.embeddings: word -> vector, in insertion order
    words,        \* self.words: word -> [meaning, status], in insertion order
    op,           \* the operation in progress, or the last one that returned
    pc,           \* "idle", "loop" (inside add_words_batch), "done" (it returned)
    todo,         \* add_words_batch: entries of words_list not read yet
    args,         \* arguments of the last search_similar_words call
    result,       \* value returned by the last search_similar_words / get_all_words
    raised,       \* an exception reached the caller of the last operation
    log,          \* provider requests issued by the operation, in order: [text, ok]
    read,         \* add_words_batch: the "english" of the entries read so far
    wellformed,   \* add_words_batch: every entry read so far had english and japanese
    was_empty,    \* the embedding mapping was empty when the operation began
    latest,       \* history: word -> metadata of its latest successful add since clear
    cleared,      \* history: clear() was called and no fetch of add_word succeeded since
    first_added,  \* history: the words in the order of their first successful add since clear
    response,     \* what the request handler answered: [status, ...]
    threads       \* the request threads of the concurrent specification

vars == <<embeddings, words, op, pc, todo, args, result, raised, log, read,
          wellformed, was_empty, latest, cleared, first_added, response, threads>>

----------------------------------------------------------------------------
(* Bounds of the model *)

\* longest words_list handed to add_words_batch
MaxBatch == 2
\* largest limit handed to search_similar_words
MaxLimit == 3
\* the smallest limit is -MaxNeg
MaxNeg == 2

(* Input domains *)

Words == {"go", "Go", "run"}
Meanings == {"iku", "hashiru"}
Statuses == {"new", "mastered"}
Texts == {"move"}

\* what the provider may return in the store life-cycle specification
Vectors == {<<1, 0>>}
\* what the provider may return in the ranking specification
RankVectors == {<<1, 0>>, <<0, 1>>, <<3, 4>>, <<-1, 0>>, <<0, 0>>}
\* the vectors cosine_similarity is applied to on its own
CosVectors == RankVectors \cup {<<>>, <<0>>, <<2>>, <<0, 0, 0>>, <<0, -5, 0>>}

Limits == (0 - MaxNeg)..MaxLimit

----------------------------------------------------------------------------
(* Python dict, insertion ordered *)

Keys(d) == {d[i].k : i \in DOMAIN d}

Has(d, key) == key \in Keys(d)

Get(d, key) == d[CHOOSE i \in DOMAIN d : d[i].k = key].v

\* a list of pairs that is appended to, whether or not the key is there
DictSetAppends(d, key, val) == Append(d, [k |-> key, v |-> val])

\* an overwritten key moved behind the others
DictSetMovesLast(d, key, val) ==
    Append(SelectSeq(d, LAMBDA e : e.k # key), [k |-> key, v |-> val])

\* d[key] = val: an existing key keeps its position, a new key goes last
DictSet(d, key, val) ==
    IF Has(d, key)
    THEN [i \in DOMAIN d |-> IF d[i].k = key THEN [k |-> key, v |-> val] ELSE d[i]]
    ELSE Append(d, [k |-> key, v |-> val])

----------------------------------------------------------------------------
(* The embedding provider *)

ProviderError == [ok |-> FALSE, embedding |-> <<>>]

\* get_text_embedding(text): the embedding, or the provider's exception re-raised
get_text_embedding(vecs) ==
    {[ok |-> TRUE, embedding |-> v] : v \in vecs} \cup {ProviderError}

----------------------------------------------------------------------------
(* cosine_similarity *)

Min(a, b) == IF a <= b THEN a ELSE b

Max(a, b) == IF a >= b THEN a ELSE b

Abs(a) == IF a < 0 THEN 0 - a ELSE a

RECURSIVE Gcd(_, _)
Gcd(a, b) == IF b = 0 THEN a ELSE Gcd(b, a % b)

\* the float num/den, kept as the reduced fraction it rounds (den > 0)
Float(num, den) ==
    LET g == Gcd(Abs(num), den)
    IN  [num |-> num \div g, den |-> den \div g]

RECURSIVE SumTo(_, _)
\* sum(f[i] for i in 1..n)
SumTo(f, n) == IF n = 0 THEN 0 ELSE SumTo(f, n - 1) + f[n]

\* sum(a * b for a, b in zip(vec1, vec2)): zip stops at the shorter vector
Dot(vec1, vec2) ==
    LET n == Min(Len(vec1), Len(vec2))
    IN  SumTo([i \in 1..n |-> vec1[i] * vec2[i]], n)

\* math.sqrt of a perfect square
Sqrt(n) == CHOOSE r \in 0..n : r * r = n

Magnitude(vec) == Sqrt(SumTo([i \in 1..Len(vec) |-> vec[i] * vec[i]], Len(vec)))

\* what a float division by zero raises
ZeroDivisionError == [error |-> "ZeroDivisionError"]

\* num / den on floats
Divide(num, den) == IF den = 0 THEN ZeroDivisionError ELSE Float(num, den)

\* the test of lines 40-41 left out
cosine_similarity_unguarded(vec1, vec2) ==
    Divide(Dot(vec1, vec2), Magnitude(vec1) * Magnitude(vec2))

cosine_similarity(vec1, vec2) ==
    LET dot_product == Dot(vec1, vec2)
        magnitude1 == Magnitude(vec1)
        magnitude2 == Magnitude(vec2)
    IN  IF magnitude1 = 0 \/ magnitude2 = 0
        THEN Float(0, 1)
        ELSE Divide(dot_product, magnitude1 * magnitude2)

\* x >= y on floats
FloatGE(x, y) == x.num * y.den >= y.num * x.den

----------------------------------------------------------------------------
(* WordEmbeddingStore *)

\* the metadata recorded before the fetch, outside the try block
add_word_metadata_first(emb, wds, word, meaning, status, fetched) ==
    [embeddings |-> IF fetched.ok THEN DictSet(emb, word, fetched.embedding) ELSE emb,
     words |-> DictSet(wds, word, [meaning |-> meaning, status |-> status]),
     raised |-> FALSE]

\* the entry dropped when its fetch fails
add_word_forgets(emb, wds, word, meaning, status, fetched) ==
    IF fetched.ok
    THEN [embeddings |-> DictSet(emb, word, fetched.embedding),
          words |-> DictSet(wds, word, [meaning |-> meaning, status |-> status]),
          raised |-> FALSE]
    ELSE [embeddings |-> SelectSeq(emb, LAMBDA e : e.k # word),
          words |-> SelectSeq(wds, LAMBDA e : e.k # word),
          raised |-> FALSE]

\* no try block: the provider's exception leaves add_word
add_word_reraises(emb, wds, word, meaning, status, fetched) ==
    IF fetched.ok
    THEN [embeddings |-> DictSet(emb, word, fetched.embedding),
          words |-> DictSet(wds, word, [meaning |-> meaning, status |-> status]),
          raised |-> FALSE]
    ELSE [embeddings |-> emb, words |-> wds, raised |-> TRUE]

\* add_word(word, meaning, status) with the outcome of its one provider request
add_word(emb, wds, word, meaning, status, fetched) ==
    IF fetched.ok
    THEN [embeddings |-> DictSet(emb, word, fetched.embedding),
          words |-> DictSet(wds, word, [meaning |-> meaning, status |-> status]),
          raised |-> FALSE]
    ELSE [embeddings |-> emb, words |-> wds, raised |-> FALSE]

\* an entry of words_list: a dict that may lack any of its fields
WellFormed(word_data) == {"english", "japanese"} \subseteq DOMAIN word_data

\* word_data.get("status", "new")
StatusOf(word_data) ==
    IF "status" \in DOMAIN word_data THEN word_data["status"] ELSE "new"

\* list.sort(key=similarity, reverse=True) is stable: insert each element, in
\* list order, behind every element whose similarity is greater or equal
RECURSIVE InsertDesc(_, _)
InsertDesc(sorted, x) ==
    IF sorted = <<>> THEN <<x>>
    ELSE IF FloatGE(Head(sorted).similarity, x.similarity)
         THEN <<Head(sorted)>> \o InsertDesc(Tail(sorted), x)
         ELSE <<x>> \o sorted

RECURSIVE SortDesc(_)
SortDesc(s) ==
    IF s = <<>> THEN <<>>
    ELSE InsertDesc(SortDesc(SubSeq(s, 1, Len(s) - 1)), s[Len(s)])

\* a sort that is not stable: an element goes before its equals
RECURSIVE InsertBeforeEquals(_, _)
InsertBeforeEquals(sorted, x) ==
    IF sorted = <<>> THEN <<x>>
    ELSE IF FloatGE(x.similarity, Head(sorted).similarity)
         THEN <<x>> \o sorted
         ELSE <<Head(sorted)>> \o InsertBeforeEquals(Tail(sorted), x)

RECURSIVE SortDescUnstable(_)
SortDescUnstable(s) ==
    IF s = <<>> THEN <<>>
    ELSE InsertBeforeEquals(SortDescUnstable(SubSeq(s, 1, Len(s) - 1)), s[Len(s)])

\* the sort without reverse=True
SortAscending(s) ==
    LET d == SortDesc(s) IN [i \in 1..Len(d) |-> d[Len(d) + 1 - i]]

\* similarities.sort(key=lambda x: x["similarity"], reverse=True)
SortBySimilarity(s) == SortDesc(s)

\* the last limit entries instead of the first
SliceTail(s, limit) ==
    IF limit >= 0
    THEN SubSeq(s, Len(s) - Min(limit, Len(s)) + 1, Len(s))
    ELSE SubSeq(s, 1, Max(Len(s) + limit, 0))

\* the slice taken one entry too long
SliceOneMore(s, limit) == SubSeq(s, 1, Min(limit + 1, Len(s)))

\* similarities[:limit]: a negative limit counts from the end of the list
Slice(s, limit) ==
    IF limit >= 0
    THEN SubSeq(s, 1, Min(limit, Len(s)))
    ELSE SubSeq(s, 1, Max(Len(s) + limit, 0))

\* the list built by the loop over self.embeddings.items()
Similarities(emb, wds, target_embedding) ==
    [i \in 1..Len(emb) |->
        [word |-> emb[i].k,
         meaning |-> Get(wds, emb[i].k).meaning,
         status |-> Get(wds, emb[i].k).status,
         similarity |-> cosine_similarity(target_embedding, emb[i].v)]]

\* the query embedded before the store is looked at
search_fetches_first(emb, wds, limit, fetched) ==
    IF ~fetched.ok \/ emb = <<>>
    THEN [result |-> <<>>, raised |-> FALSE, fetched |-> TRUE]
    ELSE [result |-> Slice(SortBySimilarity(Similarities(emb, wds, fetched.embedding)),
                           limit),
          raised |-> FALSE, fetched |-> TRUE]

\* no try block: the provider's exception leaves search_similar_words
search_propagates(emb, wds, limit, fetched) ==
    IF emb = <<>>
    THEN [result |-> <<>>, raised |-> FALSE, fetched |-> FALSE]
    ELSE IF ~fetched.ok
         THEN [result |-> <<>>, raised |-> TRUE, fetched |-> TRUE]
         ELSE [result |-> Slice(SortBySimilarity(Similarities(emb, wds,
                                                              fetched.embedding)),
                                limit),
               raised |-> FALSE, fetched |-> TRUE]

\* search_similar_words(target_text, limit) with the outcome of its provider
\* request; fetched is whether the request was issued at all
search_similar_words(emb, wds, limit, fetched) ==
    IF emb = <<>>
    THEN [result |-> <<>>, raised |-> FALSE, fetched |-> FALSE]
    ELSE IF ~fetched.ok
         THEN [result |-> <<>>, raised |-> FALSE, fetched |-> TRUE]
         ELSE IF \/ \E i \in DOMAIN emb : ~Has(wds, emb[i].k)
                 \/ \E i \in DOMAIN emb :
                       cosine_similarity(fetched.embedding, emb[i].v) = ZeroDivisionError
              THEN \* self.words[word] raises KeyError or cosine_similarity
                   \* raises: caught at line 107
                   [result |-> <<>>, raised |-> FALSE, fetched |-> TRUE]
              ELSE [result |-> Slice(SortBySimilarity(Similarities(emb, wds,
                                                                   fetched.embedding)),
                                     limit),
                    raised |-> FALSE, fetched |-> TRUE]

get_all_words(wds) ==
    [i \in 1..Len(wds) |->
        [word |-> wds[i].k, meaning |-> wds[i].v.meaning, status |-> wds[i].v.status]]

\* self.words.clear() left out
clear_embeddings_only(emb, wds) == [embeddings |-> <<>>, words |-> wds]

\* clear(): both mappings emptied
clear(emb, wds) == [embeddings |-> <<>>, words |-> <<>>]

----------------------------------------------------------------------------
(* History kept for the properties *)

NoArgs == [none |-> TRUE]

NoLatest == [w \in {} |-> NoArgs]

\* no request thread is running
NoThreads == [t \in {} |-> NoArgs]

\* first_added after a successful add of word
Noted(order, word) ==
    IF \E i \in DOMAIN order : order[i] = word THEN order ELSE Append(order, word)

\* no request handler has answered
NoResponse == [none |-> TRUE]

\* latest after a successful add of word
Remember(h, word, meaning, status) ==
    [w \in DOMAIN h \cup {word} |->
        IF w = word THEN [meaning |-> meaning, status |-> status] ELSE h[w]]

----------------------------------------------------------------------------
(* Initial state: WordEmbeddingStore() *)

Init ==
    /\ embeddings = <<>>
    /\ words = <<>>
    /\ op = "none"
    /\ pc = "idle"
    /\ todo = 0
    /\ args = NoArgs
    /\ result = <<>>
    /\ raised = FALSE
    /\ log = <<>>
    /\ read = <<>>
    /\ wellformed = TRUE
    /\ was_empty = TRUE
    /\ latest = NoLatest
    /\ cleared = FALSE
    /\ first_added = <<>>
    /\ response = NoResponse
    /\ threads = NoThreads

----------------------------------------------------------------------------
(* Operations, one at a time: an operation starts when the caller is idle *)
(* and ends in pc = "done", where the caller holds what it returned       *)

\* one call of add_word, as a request of its own
AddWordWith(meanings, statuses, vecs) ==
    /\ pc = "idle"
    /\ \E word \in Words, meaning \in meanings, status \in statuses,
          fetched \in get_text_embedding(vecs) :
          LET r == add_word(embeddings, words, word, meaning, status, fetched)
          IN  /\ embeddings' = r.embeddings
              /\ words' = r.words
              /\ raised' = r.raised
              /\ log' = <<[text |-> word, ok |-> fetched.ok]>>
              /\ latest' = IF fetched.ok
                           THEN Remember(latest, word, meaning, status)
                           ELSE latest
              /\ cleared' = (cleared /\ ~fetched.ok)
              /\ first_added' = IF fetched.ok THEN Noted(first_added, word)
                                ELSE first_added
    /\ op' = "add_word"
    /\ pc' = "done"
    /\ was_empty' = (embeddings = <<>>)
    /\ UNCHANGED <<todo, args, result, read, wellformed, response, threads>>

AddWord == AddWordWith(Meanings, Statuses, Vectors)

\* the entries a words_list may hold
Entries ==
    [english : Words, japanese : Meanings, status : Statuses]
    \cup [english : Words, japanese : Meanings]
    \cup [english : Words]
    \cup [japanese : Meanings]

\* add_words_batch(words_list) is called with a list of n entries
AddWordsBatchBegin ==
    /\ pc = "idle"
    /\ \E n \in 0..MaxBatch :
          /\ todo' = n
          /\ pc' = IF n = 0 THEN "done" ELSE "loop"
    /\ op' = "add_words_batch"
    /\ was_empty' = (embeddings = <<>>)
    /\ UNCHANGED <<embeddings, words, args, result, raised, log, read, wellformed,
                   latest, cleared, first_added, response, threads>>

\* one iteration of the loop of add_words_batch: the next entry is read and
\* handed to add_word; the loop ends with the list or with an exception
BatchIteration ==
    /\ pc = "loop"
    /\ \E word_data \in Entries :
          IF WellFormed(word_data)
          THEN \E fetched \in get_text_embedding(Vectors) :
               LET word == word_data["english"]
                   meaning == word_data["japanese"]
                   status == StatusOf(word_data)
                   r == add_word(embeddings, words, word, meaning, status, fetched)
               IN  /\ embeddings' = r.embeddings
                   /\ words' = r.words
                   /\ raised' = r.raised
                   /\ log' = Append(log, [text |-> word, ok |-> fetched.ok])
                   /\ read' = Append(read, word)
                   /\ latest' = IF fetched.ok
                                THEN Remember(latest, word, meaning, status)
                                ELSE latest
                   /\ cleared' = (cleared /\ ~fetched.ok)
                   /\ first_added' = IF fetched.ok THEN Noted(first_added, word)
                                     ELSE first_added
                   /\ pc' = IF r.raised \/ todo = 1 THEN "done" ELSE "loop"
                   /\ UNCHANGED wellformed
          ELSE \* word_data["english"] or word_data["japanese"] raises KeyError
               /\ raised' = TRUE
               /\ wellformed' = FALSE
               /\ pc' = "done"
               /\ UNCHANGED <<embeddings, words, log, read, latest, cleared,
                              first_added>>
    /\ todo' = todo - 1
    /\ UNCHANGED <<op, args, result, was_empty, threads>>

\* the loop, when add_words_batch was called on its own
AddWordsBatchNext ==
    /\ op = "add_words_batch"
    /\ BatchIteration
    /\ UNCHANGED response

SearchWith(vecs) ==
    /\ pc = "idle"
    /\ \E target_text \in Texts, limit \in Limits,
          fetched \in get_text_embedding(vecs) :
          LET r == search_similar_words(embeddings, words, limit, fetched)
          IN  /\ result' = r.result
              /\ raised' = r.raised
              /\ log' = IF r.fetched
                        THEN <<[text |-> target_text, ok |-> fetched.ok]>>
                        ELSE <<>>
              /\ args' = [text |-> target_text, limit |-> limit,
                           target |-> fetched.embedding]
    /\ op' = "search_similar_words"
    /\ pc' = "done"
    /\ was_empty' = (embeddings = <<>>)
    /\ UNCHANGED <<embeddings, words, todo, read, wellformed, latest, cleared,
                   first_added, response, threads>>

SearchSimilarWords == SearchWith(Vectors)

GetAllWords ==
    /\ pc = "idle"
    /\ result' = get_all_words(words)
    /\ op' = "get_all_words"
    /\ pc' = "done"
    /\ was_empty' = (embeddings = <<>>)
    /\ UNCHANGED <<embeddings, words, todo, args, raised, log, read, wellformed,
                   latest, cleared, first_added, response, threads>>

Clear ==
    /\ pc = "idle"
    /\ embeddings' = clear(embeddings, words).embeddings
    /\ words' = clear(embeddings, words).words
    /\ op' = "clear"
    /\ pc' = "done"
    /\ was_empty' = (embeddings = <<>>)
    /\ latest' = NoLatest
    /\ cleared' = TRUE
    /\ first_added' = <<>>
    /\ UNCHANGED <<todo, args, result, raised, log, read, wellformed, response, threads>>

\* the caller takes what the operation returned and is idle again
Return ==
    /\ pc = "done"
    /\ pc' = "idle"
    /\ op' = "none"
    /\ todo' = 0
    /\ args' = NoArgs
    /\ result' = <<>>
    /\ raised' = FALSE
    /\ log' = <<>>
    /\ read' = <<>>
    /\ wellformed' = TRUE
    /\ was_empty' = (embeddings = <<>>)
    /\ response' = NoResponse
    /\ UNCHANGED <<embeddings, words, latest, cleared, first_added, threads>>

Next ==
    \/ AddWord
    \/ AddWordsBatchBegin
    \/ AddWordsBatchNext
    \/ SearchSimilarWords
    \/ GetAllWords
    \/ Clear
    \/ Return

\* the life cycle of the store, requests handled one at a time
Spec == Init /\ [][Next]_vars

----------------------------------------------------------------------------
(* The request handlers of server.py, one request at a time *)

\* a field the JSON body lacks: data.get(...) gives None
None == "<None>"

\* not x, for a string or None
Falsy(x) == x \in {None, ""}

UserIds == {None, "", "u1", "u2"}

QueryTexts == {None, "", "move"}

\* data.get('limit', 3)
DefaultLimit == 3

\* round(x, 3): to the nearest multiple of 1/1000, a tie going to the even one
\* (no similarity of the model's vectors is a tie)
Round3(x) ==
    LET n == x.num * 1000
        q == n \div x.den
        r == n % x.den
        up == 2 * r > x.den \/ (2 * r = x.den /\ q % 2 = 1)
    IN  Float(IF up THEN q + 1 ELSE q, 1000)

BadRequest(message) == [status |-> 400, error |-> message]

ServerError == [status |-> 500, error |-> "exception"]

\* the store cleared before user_id is looked at
load_clears_first(emb, wds, user_id) ==
    [embeddings |-> <<>>, words |-> <<>>, rejected |-> Falsy(user_id)]

\* the words of the request added to what the store holds
load_keeps_store(emb, wds, user_id) ==
    [embeddings |-> emb, words |-> wds, rejected |-> Falsy(user_id)]

\* load_user_words up to the call of add_words_batch
load_user_words(emb, wds, user_id) ==
    IF Falsy(user_id)
    THEN [embeddings |-> emb, words |-> wds, rejected |-> TRUE]
    ELSE [embeddings |-> clear(emb, wds).embeddings,
          words |-> clear(emb, wds).words,
          rejected |-> FALSE]

\* the answer of load_user_words once add_words_batch has returned or raised
LoadResponse(batch_raised, user_id, n) ==
    IF batch_raised
    THEN ServerError
    ELSE [status |-> 200, success |-> TRUE, loaded |-> n, user_id |-> user_id]

LoadUserWordsBegin ==
    /\ pc = "idle"
    /\ \E user_id \in UserIds, n \in 0..MaxBatch :
          LET r == load_user_words(embeddings, words, user_id)
          IN  /\ embeddings' = r.embeddings
              /\ words' = r.words
              /\ args' = [user_id |-> user_id, n |-> n, before |-> Keys(embeddings)]
              /\ IF r.rejected
                 THEN /\ response' = BadRequest("user_id is required")
                      /\ pc' = "done"
                      /\ UNCHANGED <<todo, latest, cleared, first_added>>
                 ELSE /\ todo' = n
                      /\ pc' = IF n = 0 THEN "done" ELSE "loop"
                      /\ response' = IF n = 0 THEN LoadResponse(FALSE, user_id, n)
                                     ELSE response
                      /\ latest' = NoLatest
                      /\ cleared' = TRUE
                      /\ first_added' = <<>>
    /\ op' = "load_user_words"
    /\ was_empty' = (embeddings = <<>>)
    /\ UNCHANGED <<result, raised, log, read, wellformed, threads>>

\* the loop of add_words_batch inside load_user_words, and the answer after it
LoadUserWordsNext ==
    /\ op = "load_user_words"
    /\ BatchIteration
    /\ response' = IF pc' = "done"
                   THEN LoadResponse(raised', args.user_id, args.n)
                   ELSE response

\* an empty search reported as an error
search_related_words_rejects_empty(emb, wds, user_id, text, limit, fetched) ==
    IF Falsy(user_id) \/ Falsy(text)
    THEN [response |-> BadRequest("user_id and text are required"), fetched |-> FALSE]
    ELSE LET r == search_similar_words(emb, wds, limit, fetched)
         IN  [response |->
                  IF r.result = <<>>
                  THEN [status |-> 404, error |-> "No similar words found"]
                  ELSE [status |-> 200,
                        related_words |->
                            [i \in DOMAIN r.result |->
                                [english |-> r.result[i].word,
                                 japanese |-> r.result[i].meaning,
                                 status |-> r.result[i].status,
                                 similarity |-> Round3(r.result[i].similarity)]]],
              fetched |-> r.fetched]

\* search_related_words with the outcome of the provider request of the search
search_related_words(emb, wds, user_id, text, limit, fetched) ==
    IF Falsy(user_id) \/ Falsy(text)
    THEN [response |-> BadRequest("user_id and text are required"), fetched |-> FALSE]
    ELSE LET r == search_similar_words(emb, wds, limit, fetched)
         IN  [response |->
                  IF r.raised
                  THEN ServerError
                  ELSE IF r.result = <<>>
                       THEN [status |-> 200, related_words |-> <<>>,
                             message |-> "No similar words found"]
                       ELSE [status |-> 200,
                             related_words |->
                                 [i \in DOMAIN r.result |->
                                     [english |-> r.result[i].word,
                                      japanese |-> r.result[i].meaning,
                                      status |-> r.result[i].status,
                                      similarity |-> Round3(r.result[i].similarity)]]],
              fetched |-> r.fetched]

SearchRelatedWords ==
    /\ pc = "idle"
    \* limit: the one of the body, or DefaultLimit when the body has none
    /\ \E user_id \in UserIds, text \in QueryTexts, lim \in Limits \cup {DefaultLimit},
          fetched \in get_text_embedding(Vectors) :
          LET r == search_related_words(embeddings, words, user_id, text, lim, fetched)
          IN  /\ response' = r.response
              /\ log' = IF r.fetched
                        THEN <<[text |-> text, ok |-> fetched.ok]>>
                        ELSE <<>>
              /\ args' = [user_id |-> user_id, text |-> text, limit |-> lim]
    /\ op' = "search_related_words"
    /\ pc' = "done"
    /\ was_empty' = (embeddings = <<>>)
    /\ UNCHANGED <<embeddings, words, todo, result, raised, read, wellformed, latest,
                   cleared, first_added, threads>>

\* get_user_word_list
get_user_word_list(wds, user_id) ==
    IF Falsy(user_id)
    THEN BadRequest("user_id is required")
    ELSE [status |-> 200, user_id |-> user_id,
          total_words |-> Len(get_all_words(wds)), words |-> get_all_words(wds)]

GetUserWordList ==
    /\ pc = "idle"
    /\ \E user_id \in UserIds :
          /\ response' = get_user_word_list(words, user_id)
          /\ args' = [user_id |-> user_id]
    /\ op' = "get_user_word_list"
    /\ pc' = "done"
    /\ was_empty' = (embeddings = <<>>)
    /\ UNCHANGED <<embeddings, words, todo, result, raised, log, read, wellformed,
                   latest, cleared, first_added, threads>>

NextServer ==
    \/ LoadUserWordsBegin
    \/ LoadUserWordsNext
    \/ SearchRelatedWords
    \/ GetUserWordList
    \/ Return

\* the server, requests handled one at a time
SpecServer == Init /\ [][NextServer]_vars

\* ranking: the store filled with richer embeddings and one status
RankAddWord == AddWordWith(Meanings, {"new"}, RankVectors)

RankSearch == SearchWith(RankVectors)

\* cosine_similarity applied to two vectors, of equal length or not
CosineSimilarity ==
    /\ pc = "idle"
    /\ \E vec1 \in CosVectors, vec2 \in CosVectors :
          /\ args' = [vec1 |-> vec1, vec2 |-> vec2]
          /\ result' = cosine_similarity(vec1, vec2)
    /\ op' = "cosine_similarity"
    /\ pc' = "done"
    /\ was_empty' = (embeddings = <<>>)
    /\ UNCHANGED <<embeddings, words, todo, raised, log, read, wellformed, latest,
                   cleared, first_added, response, threads>>

NextRank ==
    \/ RankAddWord
    \/ RankSearch
    \/ CosineSimilarity
    \/ Clear
    \/ Return

SpecRank == Init /\ [][NextRank]_vars

(***************************************************************************)
(* Request threads.  server.py serves every request from the one global    *)
(* word_store and app.run starts a threaded server; the store takes no     *)
(* lock.  Each request runs in a thread of its own, one statement of the   *)
(* store at a time, and the statements of different threads interleave.    *)
(***************************************************************************)

Tids == {"t1", "t2", "t3"}
ThreadWords == {"go", "run"}
\* the word lists two users may load
LoadLists == {<<"go">>, <<"run">>, <<"go", "run">>}

\* the local variables of a thread that has accepted a request
Frame(o, p, word, list) ==
    [op |-> o, pc |-> p, word |-> word, list |-> list, todo |-> list,
     embedding |-> <<>>, target |-> <<>>, it |-> 0, used |-> 0,
     similarities |-> <<>>, result |-> <<>>, ok |-> {}, error |-> ""]

Running(t) == t \in DOMAIN threads /\ threads[t].pc # "done"

At(t, p) == t \in DOMAIN threads /\ threads[t].pc = p

Accept(t, frame) ==
    /\ t \notin DOMAIN threads
    /\ threads' = (t :> frame) @@ threads

Step(t, frame) == threads' = [threads EXCEPT ![t] = frame]

\* the variables of the sequential specifications
seq_vars == <<op, pc, todo, args, result, raised, log, read, wellformed, was_empty,
              latest, cleared, first_added, response>>

\* where a thread goes after one add_word: the caller returns, or the loop of
\* add_words_batch calls add_word for the next entry
AfterAddWord(frame) ==
    IF frame.op = "load_user_words" /\ frame.todo # <<>>
    THEN [frame EXCEPT !.pc = "fetch", !.word = Head(frame.todo),
                       !.todo = Tail(frame.todo)]
    ELSE [frame EXCEPT !.pc = "done"]

StartAddWord(t) ==
    /\ \E word \in ThreadWords : Accept(t, Frame("add_word", "fetch", word, <<>>))
    /\ UNCHANGED <<embeddings, words, seq_vars>>

StartClear(t) ==
    /\ Accept(t, Frame("clear", "clear_embeddings", "", <<>>))
    /\ UNCHANGED <<embeddings, words, seq_vars>>

StartSearch(t) ==
    /\ Accept(t, Frame("search_similar_words", "check", "", <<>>))
    /\ UNCHANGED <<embeddings, words, seq_vars>>

StartGetAllWords(t) ==
    /\ Accept(t, Frame("get_all_words", "list", "", <<>>))
    /\ UNCHANGED <<embeddings, words, seq_vars>>

\* a valid load request: word_store.clear(), then add_words_batch(words)
StartLoadUserWords(t) ==
    /\ \E list \in LoadLists :
          Accept(t, Frame("load_user_words", "clear_embeddings", "", list))
    /\ UNCHANGED <<embeddings, words, seq_vars>>

\* add_word, line 60: embedding = get_text_embedding(word)
ThreadFetch(t) ==
    /\ At(t, "fetch")
    /\ \E fetched \in get_text_embedding(Vectors) :
          IF fetched.ok
          THEN Step(t, [threads[t] EXCEPT !.pc = "set_embedding",
                                          !.embedding = fetched.embedding])
          ELSE Step(t, AfterAddWord(threads[t]))
    /\ UNCHANGED <<embeddings, words, seq_vars>>

\* add_word, line 61: self.embeddings[word] = embedding
ThreadSetEmbedding(t) ==
    /\ At(t, "set_embedding")
    /\ embeddings' = DictSet(embeddings, threads[t].word, threads[t].embedding)
    /\ Step(t, [threads[t] EXCEPT !.pc = "set_words"])
    /\ UNCHANGED <<words, seq_vars>>

\* add_word, lines 62-65: self.words[word] = {...}
ThreadSetWords(t) ==
    /\ At(t, "set_words")
    /\ words' = DictSet(words, threads[t].word,
                        [meaning |-> "iku", status |-> "new"])
    /\ Step(t, AfterAddWord([threads[t] EXCEPT !.ok = @ \cup {threads[t].word}]))
    /\ UNCHANGED <<embeddings, seq_vars>>

\* clear, line 128: self.embeddings.clear()
ThreadClearEmbeddings(t) ==
    /\ At(t, "clear_embeddings")
    /\ embeddings' = <<>>
    /\ Step(t, [threads[t] EXCEPT !.pc = "clear_words"])
    /\ UNCHANGED <<words, seq_vars>>

\* clear, line 129: self.words.clear(); a load goes on to its batch
ThreadClearWords(t) ==
    /\ At(t, "clear_words")
    /\ words' = <<>>
    /\ Step(t, AfterAddWord(threads[t]))
    /\ UNCHANGED <<embeddings, seq_vars>>

\* search_similar_words, lines 89-91: the test of the empty store and the
\* fetch of the query embedding
ThreadSearchFetch(t) ==
    /\ At(t, "check")
    /\ IF embeddings = <<>>
       THEN Step(t, [threads[t] EXCEPT !.pc = "done"])
       ELSE \E fetched \in get_text_embedding(Vectors) :
               IF fetched.ok
               THEN Step(t, [threads[t] EXCEPT !.pc = "next",
                                               !.target = fetched.embedding])
               ELSE Step(t, [threads[t] EXCEPT !.pc = "done"])
    /\ UNCHANGED <<embeddings, words, seq_vars>>

\* search_similar_words, line 93: one step of the iteration over
\* self.embeddings.items().  The iterator remembers the size the dict had
\* when it was made and its position; it raises RuntimeError when the size has
\* changed, and the handler of line 107 returns [].
ThreadSearchNext(t) ==
    /\ At(t, "next")
    /\ LET frame == threads[t]
           used == IF frame.it = 0 THEN Len(embeddings) ELSE frame.used
       IN  IF Len(embeddings) # used
           THEN Step(t, [frame EXCEPT !.pc = "done", !.error = "RuntimeError"])
           ELSE IF frame.it >= Len(embeddings)
           THEN Step(t, [frame EXCEPT
                    !.pc = "done",
                    !.result = Slice(SortBySimilarity(frame.similarities),
                                     DefaultLimit)])
           ELSE Step(t, [frame EXCEPT !.pc = "body", !.it = @ + 1, !.used = used,
                                      !.word = embeddings[frame.it + 1].k,
                                      !.embedding = embeddings[frame.it + 1].v])
    /\ UNCHANGED <<embeddings, words, seq_vars>>

\* search_similar_words, lines 94-100: the body of the loop reads
\* self.words[word]; KeyError is caught at line 107 and the result is []
ThreadSearchBody(t) ==
    /\ At(t, "body")
    /\ LET frame == threads[t]
       IN  IF ~Has(words, frame.word)
           THEN Step(t, [frame EXCEPT !.pc = "done", !.error = "KeyError"])
           ELSE Step(t, [frame EXCEPT
                    !.pc = "next",
                    !.similarities = Append(@,
                        [word |-> frame.word,
                         meaning |-> Get(words, frame.word).meaning,
                         status |-> StatusOf(Get(words, frame.word)),
                         similarity |-> cosine_similarity(frame.target,
                                                          frame.embedding)])])
    /\ UNCHANGED <<embeddings, words, seq_vars>>

\* get_all_words, lines 115-122: one list comprehension over self.words
ThreadGetAllWords(t) ==
    /\ At(t, "list")
    /\ Step(t, [threads[t] EXCEPT !.pc = "done", !.result = get_all_words(words)])
    /\ UNCHANGED <<embeddings, words, seq_vars>>

NextThreads ==
    \E t \in Tids :
        \/ StartAddWord(t)
        \/ StartClear(t)
        \/ StartSearch(t)
        \/ StartGetAllWords(t)
        \/ StartLoadUserWords(t)
        \/ ThreadFetch(t)
        \/ ThreadSetEmbedding(t)
        \/ ThreadSetWords(t)
        \/ ThreadClearEmbeddings(t)
        \/ ThreadClearWords(t)
        \/ ThreadSearchFetch(t)
        \/ ThreadSearchNext(t)
        \/ ThreadSearchBody(t)
        \/ ThreadGetAllWords(t)

SpecThreads == Init /\ [][NextThreads]_vars

----------------------------------------------------------------------------
(* Properties *)

Idle == pc \in {"idle", "done"}

Returned(o) == op = o /\ pc = "done"

\* the words whose fetch succeeded during the operation
Fetched == {log[i].text : i \in {j \in DOMAIN log : log[j].ok}}

\* C1: whenever no operation is in progress, the embedding mapping and the
\* metadata mapping have the same set of keys.
C1_Lockstep == Idle => Keys(embeddings) = Keys(words)

\* a batch has returned in which one fetch failed and another succeeded
C1_Witness ==
    /\ Returned("add_words_batch")
    /\ \E i, j \in DOMAIN log : log[i].ok /\ ~log[j].ok
    /\ Keys(embeddings) # {}

\* the step is one call of add_word, on its own or from the loop of the batch
AddWordCalled ==
    \/ pc = "idle" /\ op' = "add_word"
    \/ pc = "loop" /\ Len(log') = Len(log) + 1

\* C2: a call of add_word whose fetch fails returns normally and leaves both
\* mappings exactly as they were before the call.
C2_FailedAddKeepsStore ==
    [][(AddWordCalled /\ ~log'[Len(log')].ok) =>
          (raised' = FALSE /\ embeddings' = embeddings /\ words' = words)]_vars

\* add_word has failed for a word that was stored before the call
C2_Witness ==
    /\ Returned("add_word")
    /\ ~log[1].ok
    /\ Has(embeddings, log[1].text)
    /\ Has(words, log[1].text)

\* C3: add_words_batch on an empty store with well-formed entries returns
\* without raising, has every entry fetched in input order, and leaves the
\* store holding exactly the words whose fetch succeeded.
C3_BatchIsolatesFailures ==
    (Returned("add_words_batch") /\ was_empty /\ wellformed) =>
        /\ ~raised
        /\ todo = 0
        /\ [i \in DOMAIN log |-> log[i].text] = read
        /\ Keys(embeddings) = Fetched
        /\ Keys(words) = Fetched

\* the first entry's fetch failed and the second entry was added all the same
C3_Witness ==
    /\ Returned("add_words_batch") /\ was_empty /\ wellformed
    /\ Len(log) = 2
    /\ ~log[1].ok /\ log[2].ok
    /\ log[1].text # log[2].text
    /\ Keys(embeddings) = {log[2].text}

\* C4: get_all_words holds exactly one entry for each word added with success,
\* carrying the meaning and status of the latest such add; words that differ
\* in case are different entries.
C4_LatestAddWins ==
    LET all == get_all_words(words)
    IN  \A w \in Words :
           LET at == {i \in DOMAIN all : all[i].word = w}
           IN  IF w \in DOMAIN latest
               THEN /\ Cardinality(at) = 1
                    /\ \A i \in at : /\ all[i].meaning = latest[w].meaning
                                     /\ all[i].status = latest[w].status
               ELSE at = {}

\* a batch added "go" twice while "Go" was stored with other metadata
C4_Witness ==
    /\ Returned("add_words_batch")
    /\ read = <<"go", "go">>
    /\ log[1].ok /\ log[2].ok
    /\ Has(words, "Go")
    /\ Get(words, "Go") # Get(words, "go")
    /\ Len(get_all_words(words)) = 2

\* C5: on a nonempty store the result of search_similar_words is sorted by
\* similarity, non-increasing.
C5_SortedDescending ==
    (Returned("search_similar_words") /\ ~was_empty) =>
        \A i \in 1..(Len(result) - 1) :
            FloatGE(result[i].similarity, result[i + 1].similarity)

\* a search has returned three entries of three different similarities,
\* stored in another order than the one returned
C5_Witness ==
    /\ Returned("search_similar_words")
    /\ Len(result) = 3
    /\ ~FloatGE(result[2].similarity, result[1].similarity)
    /\ ~FloatGE(result[3].similarity, result[2].similarity)
    /\ result[1].word # embeddings[1].k

\* C6: with limit k >= 0 search_similar_words returns at most k entries, and
\* none at all when the store is empty.
C6_AtMostLimit ==
    Returned("search_similar_words") =>
        /\ args.limit >= 0 => Len(result) <= args.limit
        /\ was_empty => Len(result) = 0

\* a search over three stored words was cut to a limit of two
C6_Witness ==
    /\ Returned("search_similar_words")
    /\ Len(embeddings) = 3
    /\ args.limit = 2
    /\ Len(result) = 2

\* C7: search_similar_words with limit <= 0 returns an empty sequence.
C7_NonPositiveLimitEmpty ==
    (Returned("search_similar_words") /\ args.limit <= 0) => result = <<>>

\* C8: on an empty store search_similar_words returns an empty sequence and
\* issues no request to the provider.
C8_EmptyStoreNoFetch ==
    (Returned("search_similar_words") /\ was_empty) =>
        (result = <<>> /\ log = <<>>)

\* a search with a positive limit has returned from an empty store
C8_Witness ==
    /\ Returned("search_similar_words")
    /\ was_empty
    /\ embeddings = <<>>
    /\ args.limit > 0

\* C9: when the store is nonempty and the fetch for the query fails,
\* search_similar_words returns an empty sequence, raises nothing and leaves
\* both mappings unchanged.
C9_FailedSearchIsEmpty ==
    [][(/\ pc = "idle"
        /\ op' = "search_similar_words"
        /\ embeddings # <<>>
        /\ log' # <<>>
        /\ ~log'[1].ok) =>
          (/\ result' = <<>>
           /\ raised' = FALSE
           /\ embeddings' = embeddings
           /\ words' = words)]_vars

\* the fetch of a search over a nonempty store has failed
C9_Witness ==
    /\ Returned("search_similar_words")
    /\ ~was_empty
    /\ embeddings # <<>>
    /\ Len(log) = 1
    /\ ~log[1].ok
    /\ args.limit > 0

\* C10: from clear() until the next add_word whose fetch succeeds, both
\* mappings are empty, get_all_words is empty and every search returns an
\* empty sequence.
C10_EmptyUntilAdded ==
    cleared =>
        /\ embeddings = <<>>
        /\ words = <<>>
        /\ get_all_words(words) = <<>>
        /\ Returned("search_similar_words") => result = <<>>
        /\ Returned("get_all_words") => result = <<>>

\* after a clear a failed add has returned and the store is still empty
C10_Witness ==
    /\ cleared
    /\ Returned("add_word")
    /\ ~log[1].ok
    /\ get_all_words(words) = <<>>

\* C11: get_all_words lists the stored words in the order of their first
\* successful add since the last clear, a later overwrite keeping the word's
\* place, and each record holds word, meaning and status and nothing else.
C11_InsertionOrder ==
    LET all == get_all_words(words)
    IN  /\ [i \in DOMAIN all |-> all[i].word] = first_added
        /\ \A i \in DOMAIN all : DOMAIN all[i] = {"word", "meaning", "status"}

\* the word just added with success is listed first, before another word:
\* it was stored already and kept its place
C11_Witness ==
    /\ Returned("add_word")
    /\ log[1].ok
    /\ Len(words) >= 2
    /\ get_all_words(words)[1].word = log[1].text
    /\ first_added[1] = log[1].text

\* the request body carried what the handler requires
ValidRequest ==
    /\ ~Falsy(args.user_id)
    /\ op = "search_related_words" => ~Falsy(args.text)

\* C12: after a load_user_words request that carries a user_id and
\* well-formed words, the store holds exactly the words of that load whose
\* fetch succeeded, nothing of an earlier load, whatever the user_id.
C12_LastLoadWins ==
    (Returned("load_user_words") /\ ValidRequest /\ wellformed) =>
        /\ Keys(embeddings) = Fetched
        /\ Keys(words) = Fetched
        /\ response.status = 200

\* a load has replaced a word of an earlier load by another word
C12_Witness ==
    /\ Returned("load_user_words") /\ ValidRequest /\ wellformed
    /\ args.before # {}
    /\ Fetched # {}
    /\ args.before \cap Keys(embeddings) = {}
    /\ \E i \in DOMAIN log : ~log[i].ok

\* C13: search_related_words with user_id and text answers the success
\* payload with an empty related_words list, never an error, when limit is 0,
\* when the store is empty and when the fetch for the query fails.
C13_NothingFoundIsSuccess ==
    (/\ Returned("search_related_words")
     /\ ValidRequest
     /\ \/ args.limit = 0
        \/ was_empty
        \/ (log # <<>> /\ ~log[1].ok)) =>
        response = [status |-> 200, related_words |-> <<>>,
                    message |-> "No similar words found"]

\* the provider failed for a query over a nonempty store and the answer is
\* the one of a search that matched nothing
C13_Witness ==
    /\ Returned("search_related_words")
    /\ ValidRequest
    /\ ~was_empty
    /\ args.limit > 0
    /\ log # <<>> /\ ~log[1].ok
    /\ response.status = 200
    /\ response.related_words = <<>>

\* C19: a request rejected by input validation (no user_id; for
\* search_related_words no user_id or no text) is answered with the
\* validation error, issues no provider request and leaves both mappings as
\* they were; load_user_words clears nothing.
C19_RejectedLeavesStore ==
    [][(/\ pc = "idle"
        /\ op' \in {"load_user_words", "search_related_words", "get_user_word_list"}
        /\ \/ Falsy(args'.user_id)
           \/ (op' = "search_related_words" /\ Falsy(args'.text))) =>
          (/\ response'.status = 400
           /\ pc' = "done"
           /\ log' = <<>>
           /\ embeddings' = embeddings
           /\ words' = words)]_vars

\* a load without user_id, with words to load, was rejected on a nonempty store
C19_Witness ==
    /\ Returned("load_user_words")
    /\ Falsy(args.user_id)
    /\ args.n > 0
    /\ response.status = 400
    /\ embeddings # <<>>
    /\ Keys(embeddings) = args.before

\* the words of a search result, in order
ResultWords == [i \in DOMAIN result |-> result[i].word]

\* the query fetch of the search that returned succeeded
QueryFetched == log # <<>> /\ log[1].ok

\* C16: when the query fetch succeeds and limit >= 0, search_similar_words
\* returns exactly min(limit, number of stored words) entries, each a distinct
\* stored word with its current meaning and status and its own similarity, and
\* every returned similarity is at least that of every stored word not
\* returned.
C16_TopOfRanking ==
    (Returned("search_similar_words") /\ QueryFetched /\ args.limit >= 0) =>
        /\ Len(result) = Min(args.limit, Len(embeddings))
        /\ \A i, j \in DOMAIN result : i # j => result[i].word # result[j].word
        /\ \A i \in DOMAIN result :
              /\ Has(embeddings, result[i].word)
              /\ Has(words, result[i].word)
              /\ result[i].meaning = Get(words, result[i].word).meaning
              /\ result[i].status = Get(words, result[i].word).status
              /\ result[i].similarity =
                    cosine_similarity(args.target, Get(embeddings, result[i].word))
              /\ \A k \in DOMAIN embeddings :
                    (\A j \in DOMAIN result : result[j].word # embeddings[k].k) =>
                        FloatGE(result[i].similarity,
                                cosine_similarity(args.target, embeddings[k].v))

\* go was stored before run, the query is closer to run, and a search limited
\* to one entry returned run alone
C16_Witness ==
    /\ Returned("search_similar_words")
    /\ QueryFetched
    /\ Keys(embeddings) = {"go", "run"}
    /\ embeddings[1].k = "go"
    /\ args.limit = 1
    /\ ResultWords = <<"run">>
    /\ ~FloatGE(cosine_similarity(args.target, Get(embeddings, "go")),
                result[1].similarity)

\* the place of a word in the order get_all_words reports
PlaceOf(word) ==
    LET all == get_all_words(words)
    IN  CHOOSE i \in DOMAIN all : all[i].word = word

\* C17: entries of a search result whose similarities are equal are listed in
\* the insertion order of the store, the order get_all_words reports.
C17_TiesInInsertionOrder ==
    (Returned("search_similar_words") /\ Keys(embeddings) = Keys(words)) =>
        \A i, j \in DOMAIN result :
            (i < j /\ result[i].similarity = result[j].similarity) =>
                PlaceOf(result[i].word) < PlaceOf(result[j].word)

\* the word stored last ranks first, and the two words stored before it tie
\* behind it
C17_Witness ==
    /\ Returned("search_similar_words")
    /\ Len(result) = 3
    /\ result[1].word = embeddings[3].k
    /\ result[2].similarity = result[3].similarity
    /\ result[1].similarity # result[2].similarity
    /\ result[2].word = embeddings[1].k
    /\ result[3].word = embeddings[2].k

\* C18: an entry of add_words_batch that fails for any reason, a missing
\* "english" or "japanese" field included, does not abort the batch: when the
\* batch returns, every entry has been processed.
C18_MalformedEntryDoesNotAbort ==
    Returned("add_words_batch") => (todo = 0 /\ ~raised)

\* all components zero, or no component at all
IsZeroVector(vec) == \A i \in DOMAIN vec : vec[i] = 0

\* C20: cosine_similarity returns 0.0, and no division error, whenever one of
\* its vectors has zero magnitude, whatever the other vector; a search whose
\* query or stored embedding is the zero vector lists that word with
\* similarity 0 instead of failing.
C20_ZeroMagnitudeIsZero ==
    /\ (Returned("cosine_similarity")
            /\ (IsZeroVector(args.vec1) \/ IsZeroVector(args.vec2))) =>
          result = Float(0, 1)
    /\ (Returned("search_similar_words") /\ QueryFetched
            /\ args.limit >= Len(embeddings)) =>
          /\ Len(result) = Len(embeddings)
          /\ \A i \in DOMAIN result :
                (\/ IsZeroVector(args.target)
                 \/ IsZeroVector(Get(embeddings, result[i].word))) =>
                    result[i].similarity = Float(0, 1)

\* a search with a nonzero query over a store holding a zero embedding and a
\* nonzero one returned both words
C20_Witness ==
    /\ Returned("search_similar_words")
    /\ QueryFetched
    /\ ~IsZeroVector(args.target)
    /\ Len(result) = 2
    /\ IsZeroVector(Get(embeddings, result[2].word))
    /\ result[2].similarity = Float(0, 1)
    /\ result[1].similarity # Float(0, 1)

\* every request thread that was started has finished
AllFinished == \A t \in DOMAIN threads : threads[t].pc = "done"

\* one thread runs add_word and every other thread clear, search_similar_words
\* or get_all_words
AddWordAmongReaders ==
    \E t \in DOMAIN threads :
        /\ threads[t].op = "add_word"
        /\ \A u \in DOMAIN threads \ {t} :
              threads[u].op \in {"clear", "search_similar_words", "get_all_words"}

\* C14: when add_word runs in one thread, interleaved statement by statement
\* with clear, search_similar_words or get_all_words in other threads, no
\* operation finds a word in one mapping that the other mapping lacks, and
\* once every operation has finished the two mappings have the same keys.
C14_AddWordAtomic ==
    AddWordAmongReaders =>
        /\ \A t \in DOMAIN threads : threads[t].error # "KeyError"
        /\ AllFinished => Keys(embeddings) = Keys(words)

\* two loads of different lists ran, and alone
TwoLoads(a, b) ==
    /\ a # b
    /\ DOMAIN threads = {a, b}
    /\ threads[a].op = "load_user_words"
    /\ threads[b].op = "load_user_words"
    /\ threads[a].list # threads[b].list

\* C15: once two overlapping load_user_words requests with different word
\* lists have both finished, the store holds the successfully embedded words
\* of exactly one of them.
C15_OneLoadWins ==
    \A a, b \in Tids :
        (TwoLoads(a, b) /\ AllFinished) =>
            \E t \in {a, b} :
                /\ Keys(embeddings) = threads[t].ok
                /\ Keys(words) = threads[t].ok

====
